---- MODULE Spec2Model ----
(***************************************************************************)
(* State-machine model of the orchestration core of VrindaAI:              *)
(*   - ModelManager (model-slot scheduler, inference client)               *)
(*       src/Services/modelmanager.cpp                                     *)
(*   - LlamaServerController (process supervisor)                          *)
(*       src/Controllers/llamaservercontroller.cpp                         *)
(*   - the health check poller of MainWindow (health gate)                 *)
(*       src/mainwindow.cpp:245-302                                        *)
(*   - ProjectWorkflow (workflow graph executor)                           *)
(*       src/Controllers/projectworkflow.cpp                               *)
(* Everything runs on one Qt event loop: every action below is one         *)
(* callback run to completion (a slot, a timer, a reply, a process exit).  *)
(* Prompt texts and log messages carry no control flow and are left out.   *)
(***************************************************************************)
EXTENDS Integers, Sequences, FiniteSets, Bags, TLC

\* ------------------------------------------------------------- bounds
\* Number of sendRequest calls made by callers.
MaxReq == 3
\* Number of backend processes ever spawned by startServer.
MaxProcs == 3
\* Health probes of one poller that may be in flight together.
MaxProbes == 2
\* Transmissions of one request chain (first attempt plus re-sends) explored
\* by the inference-client specification SpecNet.
MaxAttempts == 5
\* Number of sendRequest calls in SpecNet.
MaxNetReq == 1
\* Number of sendRequest calls in SpecProc.
MaxProcReq == 2
\* Task ids of a plan are 1..MaxTasks; a task names at most MaxDeps
\* dependencies.
MaxTasks == 3
MaxDeps == 2
\* Plans loaded and corrections applied in one run of the workflow.
MaxLoads == 1
MaxReloads == 2
MaxCorrections == 1

\* -------------------------------------------------- program constants
StaggerStart == 100
StaggerStep == 1500
NextSwapExtra == 1000
SettleDelay == 500
RetryDelay == 2000
MaxNetworkRetries == 3
PollInterval == 2000
\* llamaservercontroller.h: the cap on resident backends.
MAX_ACTIVE_LLM_SERVERS == 2

\* Roles the callers use; "Designer" has no entry in m_roleToModelMap.
Roles == {"Coder", "Planner", "Researcher"}
m_defaultModel == "mistral.gguf"
Models == {"qwencoder.gguf", "mistral.gguf", "Phimini.gguf"}
Ports == {8080, 8081, 8083}

\* m_roleToModelMap.value(role, m_defaultModel)
getModelForRole(role) ==
  CASE role = "Manager" -> "qwencoder.gguf"
    [] role = "Coder" -> "qwencoder.gguf"
    [] role = "Planner" -> "mistral.gguf"
    [] role = "Researcher" -> "Phimini.gguf"
    [] OTHER -> m_defaultModel

\* m_modelToPortMap.value(model, 8080)
m_modelToPortMap(model) ==
  CASE model = "Phimini.gguf" -> 8080
    [] model = "qwencoder.gguf" -> 8081
    [] model = "llava.gguf -- mmproj-model-f16.gguf" -> 8082
    [] model = "mistral.gguf" -> 8083
    [] OTHER -> 8080

VARIABLES
  \* ModelManager
  m_serverController,      \* TRUE once setServerController attached a controller
  m_activeModelName,
  m_activeModelPort,
  m_isCurrentlySwapping,
  m_pendingRequests,       \* QQueue<PendingRequest>
  \* event loop
  timers,                  \* pending single-shot / interval timers, by expiry
  inflight,                \* bag of posted completion requests awaiting a reply
  \* LlamaServerController
  m_activeServers,         \* port -> pid of the registered QProcess, 0 if none
  lsc_activeModelName,
  lsc_activeModelPort,
  procs,                   \* pid -> backend process
  \* health check poller
  gates,                   \* poller id -> [port, alreadyTriggered]
  probes,                  \* bag of /health requests awaiting delivery
  \* observation (history) variables
  nextTaskId,
  accepted,                \* taskIds enqueued or sent by sendRequest
  dispatched,              \* taskIds handed to sendNetworkRequest
  lastPost,                \* the latest POST and what held at that moment
  awaiting,                \* port -> id of the swap whose gate has not fired, 0
  responseReady,           \* taskId -> number of responseReady signals
  requestFailed,           \* taskId -> number of requestFailed signals
  justRefused,             \* the startServer call the last step refused
  \* ProjectWorkflow
  m_tasks,                 \* QMap<QString, WorkflowTask>
  m_isRunning,
  projectLoaded,           \* m_projectManager->isProjectLoaded()
  wfCrashed,               \* the process died in the dispatch loop
  \* observation of the workflow's signals
  justAssigned,            \* assignTaskToAgent signals of the last callback
  justFinished,            \* workflowFinished signals of the last callback
  justPasses,              \* passes of the dispatch loop in the last callback,
                           \* counted by the specification that counts them
  assigned,                \* task id -> assignTaskToAgent signals counted by
                           \* the specifications that count them
  justEscalated,           \* escalateToManager signals of the last callback,
                           \* in the order of their emission
  justModified,            \* the keys and the retry list of the modification
                           \* the last callback applied
  justLoaded,              \* what the last callback's plan description held,
                           \* when that callback was a plan load
  paused,                  \* a task failed and no correction was applied yet
  outstanding,             \* task ids whose inference request awaits its reply
  loads,
  corrections

schedVars == <<m_serverController, m_activeModelName, m_activeModelPort,
               m_isCurrentlySwapping, m_pendingRequests, timers, inflight,
               m_activeServers, lsc_activeModelName, lsc_activeModelPort,
               procs, gates, probes, nextTaskId, accepted, dispatched,
               lastPost, awaiting, responseReady, requestFailed,
               justRefused>>

wfVars == <<m_tasks, m_isRunning, projectLoaded, wfCrashed, justAssigned,
            justFinished, justPasses, assigned, justEscalated, justModified,
            justLoaded,
            paused,
            outstanding,
            loads, corrections>>

vars == <<schedVars, wfVars>>

TaskIds == 1..MaxReq
Pids == 1..MaxProcs
NoReq == [taskId |-> 0, role |-> "", model |-> "", port |-> 0]
NoProc == [model |-> "", port |-> 0, st |-> "none"]
NoStart == [model |-> "", port |-> 0]
NoPost == [taskId |-> 0, model |-> "", port |-> 0, attempt |-> 0,
           activeModel |-> "", activePort |-> 0, swapping |-> FALSE,
           unconfirmed |-> FALSE, drain |-> 0, pos |-> 0]

\* ------------------------------------------------------------ timers
\* QTimer: the event loop fires timers in order of expiry; timers that expire
\* together fire in the order they were started.  due is relative to now.
\* gate is the poller of a poll timer and, for the timers of a request the
\* drain dequeued, the poller whose callback ran that drain; pos is the place
\* the request had in the queue the drain found (0: not from a drain).
Timer(kind, due, req, attempt, gate) ==
  [kind |-> kind, due |-> due, req |-> req, attempt |-> attempt, gate |-> gate,
   pos |-> 0]

RECURSIVE InsertTimer(_, _)
InsertTimer(tm, t) ==
  IF tm = <<>> THEN <<t>>
  ELSE IF Head(tm).due <= t.due THEN <<Head(tm)>> \o InsertTimer(Tail(tm), t)
  ELSE <<t>> \o tm

\* The timers left when the first one fires: time has advanced to its expiry.
AfterFire(tm) ==
  [i \in 1..(Len(tm) - 1) |-> [tm[i + 1] EXCEPT !.due = @ - tm[1].due]]

\* --------------------------------------------- LlamaServerController
\* The controller state as one value: S.servers is m_activeServers.
Ctrl(servers, ps, name, port) ==
  [servers |-> servers, procs |-> ps, name |-> name, port |-> port]

\* A finished handler that leaves the registry alone.
finishedHandler_keeps(S, port) == S

\* The lambda connected to QProcess::finished; it captured port by value.
finishedHandler(S, port) ==
  [S EXCEPT !.servers = [@ EXCEPT ![port] = 0],
            !.name = IF S.port = port THEN "" ELSE @,
            !.port = IF S.port = port THEN 0 ELSE @]

\* A stopServer that leaves the process and its registration alone.
stopServer_noop(S, port, exitsInTime) == S

\* stopServer(port), the body behind stopServerOnPort.  kill() is followed by
\* waitForFinished(3000): either the process exits within the wait, and its
\* finished signal is delivered inside the call, or the wait times out and
\* the exit is notified later (exitsInTime = FALSE).
stopServer(S, port, exitsInTime) ==
  IF port \in Ports /\ S.servers[port] # 0
  THEN LET pid == S.servers[port]
           running == S.procs[pid].st \in {"loading", "ready"}
           killed == IF ~running THEN S
                     ELSE IF exitsInTime
                     THEN finishedHandler(
                            [S EXCEPT !.procs = [@ EXCEPT ![pid].st = "crashed"]],
                            S.procs[pid].port)
                     ELSE [S EXCEPT !.procs = [@ EXCEPT ![pid].st = "killed"]]
       IN [killed EXCEPT !.servers = [@ EXCEPT ![port] = 0]]
  ELSE S

FreshPid(ps) == CHOOSE pid \in Pids : ps[pid].st = "none" /\
                   \A q \in Pids : q < pid => ps[q].st # "none"

\* A startServer that takes every port for free.
portInUse_never(S, port) == FALSE

\* m_activeServers.contains(port), the test startServer opens with
portInUse(S, port) == S.servers[port] # 0

\* The serverError "Cannot start ...: Port ... is already in use" of a call.
Refusal(S, modelName, port) ==
  IF portInUse(S, port) THEN [model |-> modelName, port |-> port] ELSE NoStart

\* startServer(modelName, port)
startServer(S, modelName, port) ==
  IF portInUse(S, port)
  THEN S   \* serverError "Port is already in use", nothing started
  ELSE LET pid == FreshPid(S.procs)
       IN [S EXCEPT !.name = modelName,
                    !.port = port,
                    !.servers = [@ EXCEPT ![port] = pid],
                    !.procs = [@ EXCEPT ![pid] =
                       [model |-> modelName, port |-> port, st |-> "loading"]]]

Spawned == Cardinality({pid \in Pids : procs[pid].st # "none"})

\* The loop of stopAllServers over m_activeServers.keys(), in key order;
\* exits[port] tells whether that port's kill is waited out in time.
RECURSIVE stopEach(_, _, _)
stopEach(S, keys, exits) ==
  IF keys = {} THEN S
  ELSE LET port == CHOOSE p \in keys : \A q \in keys : p <= q
       IN stopEach(stopServer(S, port, exits[port]), keys \ {port}, exits)

\* stopAllServers()
stopAllServers(S, exits) ==
  [stopEach(S, {p \in Ports : S.servers[p] # 0}, exits)
     EXCEPT !.name = "", !.port = 0]

\* ------------------------------------------------ health check poller
\* The handler of startHealthCheck: a new poller with its own
\* alreadyTriggered flag and a 2000 ms interval timer.  Pollers are numbered
\* in the order the swaps registered them.
\* fired counts the invocations of the poller's onReadyCallback.
Gate(port) == [port |-> port, alreadyTriggered |-> FALSE, fired |-> 0]

\* A reply handler that never takes a reply for a ready one.
replyTriggers_never(gate, ready) == FALSE

\* A reply handler that takes every ready reply for the first one.
replyTriggers_unguarded(gate, ready) == ready

\* The reply handler of a probe (lines 264-282): a reply that comes after
\* the poller triggered is dropped; otherwise a ready reply triggers it.
replyTriggers(gate, ready) == ~gate.alreadyTriggered /\ ready

ProbesOf(g) ==
  CopiesIn([gate |-> g, ready |-> TRUE], probes) +
  CopiesIn([gate |-> g, ready |-> FALSE], probes)

\* A /health request is answered by the process listening on the port.
ListenerReady(port) ==
  \E pid \in Pids : procs[pid].port = port /\ procs[pid].st = "ready"

\* ------------------------------------------------------- ModelManager
PendingRequest(taskId, role) ==
  [taskId |-> taskId, role |-> role, model |-> getModelForRole(role),
   port |-> m_modelToPortMap(getModelForRole(role))]

\* sendNetworkRequest: nothing is posted yet, a 500 ms single-shot is armed.
sendNetworkRequestOf(tm, req, attempt, drain, pos) ==
  InsertTimer(tm, [Timer("settle", SettleDelay, req, attempt, drain)
                     EXCEPT !.pos = pos])

\* A sendNetworkRequest that arms nothing.
sendNetworkRequest_drop(tm, req, attempt) == tm

sendNetworkRequest(tm, req, attempt) == sendNetworkRequestOf(tm, req, attempt, 0, 0)

\* int retries = requestData.value("retryCount", 0).toInt(): requestData was
\* built three lines above and holds role, taskId and modelUsed only.
retryCount(req) == 0

\* A ModelManager that reports no failure.
emitRequestFailed_silent(signals, taskId) == signals

\* emit requestFailed(taskId, role, ...): one more signal for the task
emitRequestFailed(signals, taskId) == [signals EXCEPT ![taskId] = @ + 1]

\* An enqueue that stores the request twice.
enqueue_twice(q, req) == Append(Append(q, req), req)

\* m_pendingRequests.enqueue({taskId, role, prompt, requiredModel, requiredPort})
enqueue(q, req) == Append(q, req)

\* sendRequest(taskId, role, prompt), entered with the swap flag `swapping`
\* and the pending timers `tm`.
sendRequest(taskId, role, swapping, tm, exitsInTime) ==
  LET req == PendingRequest(taskId, role)
      S0 == Ctrl(m_activeServers, procs, lsc_activeModelName, lsc_activeModelPort)
  IN
  IF ~m_serverController
  THEN /\ requestFailed' = emitRequestFailed(requestFailed, taskId)
       /\ m_isCurrentlySwapping' = swapping
       /\ justRefused' = NoStart
       /\ timers' = tm
       /\ UNCHANGED <<m_activeModelName, m_activeModelPort, m_pendingRequests,
                      m_activeServers, lsc_activeModelName, lsc_activeModelPort,
                      procs, gates, accepted, dispatched, awaiting>>
  ELSE IF m_activeModelName = req.model /\ ~swapping
  THEN \* 1. correct model already loaded and server idle: send immediately
       /\ timers' = sendNetworkRequest(tm, req, 0)
       /\ m_isCurrentlySwapping' = swapping
       /\ justRefused' = NoStart
       /\ accepted' = accepted \cup {taskId}
       /\ dispatched' = dispatched \cup {taskId}
       /\ UNCHANGED <<m_activeModelName, m_activeModelPort, m_pendingRequests,
                      m_activeServers, lsc_activeModelName, lsc_activeModelPort,
                      procs, gates, awaiting, requestFailed>>
  ELSE IF swapping
  THEN \* 2./3. queue the request; the running swap will drain it
       /\ m_pendingRequests' = enqueue(m_pendingRequests, req)
       /\ m_isCurrentlySwapping' = swapping
       /\ justRefused' = NoStart
       /\ timers' = tm
       /\ accepted' = accepted \cup {taskId}
       /\ UNCHANGED <<m_activeModelName, m_activeModelPort,
                      m_activeServers, lsc_activeModelName, lsc_activeModelPort,
                      procs, gates, dispatched, awaiting, requestFailed>>
  ELSE \* 4. initiate the serial swap, 5. register the health check
       LET S1 == stopServer(S0, m_activeModelPort, exitsInTime)
           S2 == startServer(S1, req.model, req.port)
           g == Len(gates) + 1
       IN /\ Spawned < MaxProcs
          /\ m_pendingRequests' = enqueue(m_pendingRequests, req)
          /\ m_isCurrentlySwapping' = TRUE
          /\ m_activeModelName' = req.model
          /\ m_activeModelPort' = req.port
          /\ m_activeServers' = S2.servers
          /\ procs' = S2.procs
          /\ lsc_activeModelName' = S2.name
          /\ lsc_activeModelPort' = S2.port
          /\ justRefused' = Refusal(S1, req.model, req.port)
          /\ gates' = Append(gates, Gate(req.port))
          /\ timers' = InsertTimer(tm, Timer("poll", PollInterval, NoReq, 0, g))
          /\ awaiting' = [awaiting EXCEPT ![req.port] = g]
          /\ accepted' = accepted \cup {taskId}
          /\ UNCHANGED <<dispatched, requestFailed>>

\* Stagger timers for the requests of the drained queue that match the
\* loaded model: 100 ms, then 1500 ms more for each further one.
\* A drain that arms all its single-shots with the first delay.
RECURSIVE StaggerTimers_together(_, _, _, _, _)
StaggerTimers_together(tm, q, at, staggerDelay, drain) ==
  IF at = <<>> THEN tm
  ELSE StaggerTimers_together(
         InsertTimer(tm, [Timer("stagger", staggerDelay, q[Head(at)], 0, drain)
                            EXCEPT !.pos = Head(at)]),
         q, Tail(at), staggerDelay, drain)

\* at lists the queue places of those requests, in queue order.
RECURSIVE StaggerTimers(_, _, _, _, _)
StaggerTimers(tm, q, at, staggerDelay, drain) ==
  IF at = <<>> THEN tm
  ELSE StaggerTimers(
         InsertTimer(tm, [Timer("stagger", staggerDelay, q[Head(at)], 0, drain)
                            EXCEPT !.pos = Head(at)]),
         q, Tail(at), staggerDelay + StaggerStep, drain)

Matching(q, model) == SelectSeq(q, LAMBDA r : r.model = model)

MatchingAt(q, model) ==
  SelectSeq([i \in 1..Len(q) |-> i], LAMBDA i : q[i].model = model)

\* A drain that keeps nothing for a later swap.
keepInQueue_nothing(q, model) == <<>>

keepInQueue(q, model) == SelectSeq(q, LAMBDA r : r.model # model)

\* A drain that never schedules the next swap.
armNextSwap_never(tm, keep, staggerDelay) == tm

\* Step 2 of the drain: with requests left in the queue, the single-shot of
\* the next swap is armed 1000 ms after the last stagger delay.
armNextSwap(tm, keep, staggerDelay) ==
  IF keep # <<>>
  THEN InsertTimer(tm, Timer("nextSwap", staggerDelay + NextSwapExtra, NoReq, 0, 0))
  ELSE tm

\* processPendingRequestQueue(), entered with the swap flag `swapping` and
\* the pending timers `tm`, from the callback of the poller `drain`.
processPendingRequestQueue(tm, swapping, drain) ==
  IF m_pendingRequests = <<>>
  THEN /\ m_isCurrentlySwapping' = FALSE
       /\ timers' = tm
       /\ UNCHANGED <<m_pendingRequests, dispatched>>
  ELSE LET send == Matching(m_pendingRequests, m_activeModelName)
           keep == keepInQueue(m_pendingRequests, m_activeModelName)
           staggerDelay == StaggerStart + StaggerStep * Len(send)
           tm1 == StaggerTimers(tm, m_pendingRequests,
                     MatchingAt(m_pendingRequests, m_activeModelName),
                     StaggerStart, drain)
       IN /\ m_pendingRequests' = keep
          /\ dispatched' = dispatched \cup {send[i].taskId : i \in 1..Len(send)}
          /\ m_isCurrentlySwapping' = (IF keep # <<>> THEN swapping ELSE FALSE)
          /\ timers' = armNextSwap(tm1, keep, staggerDelay)

\* ------------------------------------------------------------ actions
InitSched ==
  /\ m_serverController = FALSE
  /\ m_activeModelName = ""
  /\ m_activeModelPort = 0
  /\ m_isCurrentlySwapping = FALSE
  /\ m_pendingRequests = <<>>
  /\ timers = <<>>
  /\ inflight = EmptyBag
  /\ m_activeServers = [p \in Ports |-> 0]
  /\ lsc_activeModelName = ""
  /\ lsc_activeModelPort = 0
  /\ procs = [pid \in Pids |-> NoProc]
  /\ gates = <<>>
  /\ probes = EmptyBag
  /\ nextTaskId = 1
  /\ accepted = {}
  /\ dispatched = {}
  /\ lastPost = NoPost
  /\ awaiting = [p \in Ports |-> 0]
  /\ responseReady = [t \in TaskIds |-> 0]
  /\ requestFailed = [t \in TaskIds |-> 0]
  /\ justRefused = NoStart

\* MainWindow's constructor hands the controller to the ModelManager.
setServerController ==
  /\ ~m_serverController
  /\ m_serverController' = TRUE
  /\ justRefused' = NoStart
  /\ UNCHANGED <<wfVars, m_activeModelName, m_activeModelPort, m_isCurrentlySwapping,
                 m_pendingRequests, timers, inflight, m_activeServers,
                 lsc_activeModelName, lsc_activeModelPort, procs, gates, probes,
                 nextTaskId, accepted, dispatched, lastPost, awaiting,
                 responseReady, requestFailed>>

\* A caller (MainWindow::handleAgent) calls sendRequest.
CallSendRequestFrom(maxReq, roles) ==
  /\ nextTaskId <= maxReq
  /\ \E role \in roles, exitsInTime \in BOOLEAN :
        sendRequest(nextTaskId, role, m_isCurrentlySwapping, timers, exitsInTime)
  /\ nextTaskId' = nextTaskId + 1
  /\ UNCHANGED <<wfVars, m_serverController, inflight, probes, lastPost, responseReady>>

CallSendRequestUpTo(maxReq) == CallSendRequestFrom(maxReq, Roles)

\* Time passes up to the moment the next timer is about to expire, so that
\* calls, replies and process exits may come right after the last callback
\* or right before the next timer.
Elapse ==
  /\ timers # <<>>
  /\ Head(timers).due > 0
  /\ LET d == Head(timers).due
     IN timers' = [i \in 1..Len(timers) |-> [timers[i] EXCEPT !.due = @ - d]]
  /\ justRefused' = NoStart
  /\ UNCHANGED <<wfVars, m_serverController, m_activeModelName, m_activeModelPort,
                 m_isCurrentlySwapping, m_pendingRequests, inflight,
                 m_activeServers, lsc_activeModelName, lsc_activeModelPort,
                 procs, gates, probes, nextTaskId, accepted, dispatched,
                 lastPost, awaiting, responseReady, requestFailed>>

\* The single-shot of the drain loop fires: sendNetworkRequest(req...).
TimerStagger ==
  /\ timers # <<>>
  /\ Head(timers).kind = "stagger"
  /\ timers' = sendNetworkRequestOf(AfterFire(timers), Head(timers).req, 0,
                                    Head(timers).gate, Head(timers).pos)
  /\ justRefused' = NoStart
  /\ UNCHANGED <<wfVars, m_serverController, m_activeModelName, m_activeModelPort,
                 m_isCurrentlySwapping, m_pendingRequests, inflight,
                 m_activeServers, lsc_activeModelName, lsc_activeModelPort,
                 procs, gates, probes, nextTaskId, accepted, dispatched,
                 lastPost, awaiting, responseReady, requestFailed>>

\* What holds at the moment a request is posted.
NetEntry(req, attempt) ==
  [taskId |-> req.taskId, model |-> req.model, port |-> req.port,
   attempt |-> attempt,
   activeModel |-> m_activeModelName, activePort |-> m_activeModelPort,
   swapping |-> m_isCurrentlySwapping,
   unconfirmed |-> awaiting[req.port] # 0,
   drain |-> 0, pos |-> 0]

\* The 500 ms single-shot of sendNetworkRequest fires: the request is posted.
TimerSettle ==
  /\ timers # <<>>
  /\ Head(timers).kind = "settle"
  /\ LET t == Head(timers)
     IN /\ inflight' = inflight (+) SetToBag({[req |-> t.req, attempt |-> t.attempt]})
        /\ lastPost' = [NetEntry(t.req, t.attempt) EXCEPT !.drain = t.gate,
                                                          !.pos = t.pos]
  /\ timers' = AfterFire(timers)
  /\ justRefused' = NoStart
  /\ UNCHANGED <<wfVars, m_serverController, m_activeModelName, m_activeModelPort,
                 m_isCurrentlySwapping, m_pendingRequests,
                 m_activeServers, lsc_activeModelName, lsc_activeModelPort,
                 procs, gates, probes, nextTaskId, accepted, dispatched,
                 awaiting, responseReady, requestFailed>>

\* The 2000 ms single-shot of the reply handler fires: the request is re-sent.
TimerRetry ==
  /\ timers # <<>>
  /\ Head(timers).kind = "retry"
  /\ timers' = sendNetworkRequest(AfterFire(timers), Head(timers).req,
                                  Head(timers).attempt)
  /\ justRefused' = NoStart
  /\ UNCHANGED <<wfVars, m_serverController, m_activeModelName, m_activeModelPort,
                 m_isCurrentlySwapping, m_pendingRequests, inflight,
                 m_activeServers, lsc_activeModelName, lsc_activeModelPort,
                 procs, gates, probes, nextTaskId, accepted, dispatched,
                 lastPost, awaiting, responseReady, requestFailed>>

\* The single-shot armed at the end of a drain fires.
TimerNextSwap ==
  /\ timers # <<>>
  /\ Head(timers).kind = "nextSwap"
  /\ IF m_pendingRequests # <<>>
     THEN LET next == Head(m_pendingRequests)
          IN \E exitsInTime \in BOOLEAN :
               sendRequest(next.taskId, next.role, FALSE, AfterFire(timers),
                           exitsInTime)
     ELSE /\ timers' = AfterFire(timers)
          /\ justRefused' = NoStart
          /\ UNCHANGED <<m_activeModelName, m_activeModelPort,
                         m_isCurrentlySwapping, m_pendingRequests,
                         m_activeServers, lsc_activeModelName,
                         lsc_activeModelPort, procs, gates, accepted,
                         dispatched, awaiting, requestFailed>>
  /\ UNCHANGED <<wfVars, m_serverController, inflight, probes, nextTaskId, lastPost,
                 responseReady>>

\* pollTimer timeout: unless already triggered, GET /health on the port.
\* The backend answers at once; the reply is delivered by ProbeReply.
TimerPoll ==
  /\ timers # <<>>
  /\ Head(timers).kind = "poll"
  /\ LET g == Head(timers).gate
         rearmed == InsertTimer(AfterFire(timers),
                                Timer("poll", PollInterval, NoReq, 0, g))
     IN /\ ProbesOf(g) < MaxProbes
        /\ timers' = rearmed
        /\ probes' = IF gates[g].alreadyTriggered THEN probes
                     ELSE probes (+) SetToBag({[gate |-> g,
                              ready |-> ListenerReady(gates[g].port)]})
  /\ justRefused' = NoStart
  /\ UNCHANGED <<wfVars, m_serverController, m_activeModelName, m_activeModelPort,
                 m_isCurrentlySwapping, m_pendingRequests, inflight,
                 m_activeServers, lsc_activeModelName, lsc_activeModelPort,
                 procs, gates, nextTaskId, accepted, dispatched,
                 lastPost, awaiting, responseReady, requestFailed>>

\* pollTimer->stop(): the poller's timer is no longer pending.
StopPoll(tm, g) == SelectSeq(tm, LAMBDA t : ~(t.kind = "poll" /\ t.gate = g))

\* The finished handler of one /health reply.  A ready reply of a poller
\* that has not triggered yet stops its timer and runs the onReadyCallback
\* of ModelManager::sendRequest: clear m_isCurrentlySwapping, drain.
ProbeReply ==
  \E pr \in BagToSet(probes) :
    /\ probes' = probes (-) SetToBag({pr})
    /\ IF replyTriggers(gates[pr.gate], pr.ready)
       THEN /\ gates' = [gates EXCEPT ![pr.gate].alreadyTriggered = TRUE,
                                     ![pr.gate].fired = @ + 1]
            /\ awaiting' = [awaiting EXCEPT ![gates[pr.gate].port] =
                               IF @ = pr.gate THEN 0 ELSE @]
            /\ processPendingRequestQueue(StopPoll(timers, pr.gate), FALSE,
                                          pr.gate)
       ELSE UNCHANGED <<gates, awaiting, timers, m_isCurrentlySwapping,
                        m_pendingRequests, dispatched>>
    /\ justRefused' = NoStart
    /\ UNCHANGED <<wfVars, m_serverController, m_activeModelName, m_activeModelPort,
                   inflight, m_activeServers, lsc_activeModelName,
                   lsc_activeModelPort, procs, nextTaskId, accepted,
                   lastPost, responseReady, requestFailed>>

\* A completion reply finishes.  Two handlers run: the lambda connected in
\* sendNetworkRequest (retry on ConnectionRefused / RemoteHostClosed) and
\* onCompletionReplyFinished, connected to QNetworkAccessManager::finished.
\*   "ok"        NoError, needs a ready backend listening on the port
\*   "transient" ConnectionRefusedError or RemoteHostClosedError
\*   "error"     any other error (timeout, HTTP error, ...)
ReplyFinishedUpTo(maxAttempts) ==
  \E r \in BagToSet(inflight), outcome \in {"ok", "transient", "error"} :
    /\ outcome = "ok" => ListenerReady(r.req.port)
    /\ outcome = "transient" => r.attempt + 1 < maxAttempts
    /\ inflight' = inflight (-) SetToBag({r})
    /\ timers' = IF outcome = "transient" /\ retryCount(r.req) < MaxNetworkRetries
                 THEN InsertTimer(timers,
                        Timer("retry", RetryDelay, r.req, r.attempt + 1, 0))
                 ELSE timers
    /\ IF outcome = "ok"
       THEN /\ responseReady' = [responseReady EXCEPT ![r.req.taskId] = @ + 1]
            /\ UNCHANGED requestFailed
       ELSE /\ requestFailed' = emitRequestFailed(requestFailed, r.req.taskId)
            /\ UNCHANGED responseReady
    /\ justRefused' = NoStart
    /\ UNCHANGED <<wfVars, m_serverController, m_activeModelName, m_activeModelPort,
                   m_isCurrentlySwapping, m_pendingRequests, m_activeServers,
                   lsc_activeModelName, lsc_activeModelPort, procs, gates,
                   probes, nextTaskId, accepted, dispatched, lastPost, awaiting>>

\* A loading backend starts answering /health with "ok".
BackendReady ==
  \E pid \in Pids :
    /\ procs[pid].st = "loading"
    /\ procs' = [procs EXCEPT ![pid].st = "ready"]
    /\ justRefused' = NoStart
    /\ UNCHANGED <<wfVars, m_serverController, m_activeModelName, m_activeModelPort,
                   m_isCurrentlySwapping, m_pendingRequests, timers, inflight,
                   m_activeServers, lsc_activeModelName, lsc_activeModelPort,
                   gates, probes, nextTaskId, accepted, dispatched, lastPost,
                   awaiting, responseReady, requestFailed>>

\* QProcess::finished of a backend: it exits by itself (how = "exited", exit
\* code 0, or how = "crashed", CrashExit or a nonzero code), or it is a
\* process stopServer killed whose exit did not arrive within the wait.
ProcessFinished ==
  \E pid \in Pids, how \in {"exited", "crashed"} :
    /\ \/ procs[pid].st \in {"loading", "ready"}
       \/ procs[pid].st = "killed" /\ how = "crashed"
    /\ LET S == finishedHandler(
                  Ctrl(m_activeServers, [procs EXCEPT ![pid].st = how],
                       lsc_activeModelName, lsc_activeModelPort),
                  procs[pid].port)
       IN /\ m_activeServers' = S.servers
          /\ procs' = S.procs
          /\ lsc_activeModelName' = S.name
          /\ lsc_activeModelPort' = S.port
    /\ justRefused' = NoStart
    /\ UNCHANGED <<wfVars, m_serverController, m_activeModelName, m_activeModelPort,
                   m_isCurrentlySwapping, m_pendingRequests, timers, inflight,
                   gates, probes, nextTaskId, accepted, dispatched, lastPost,
                   awaiting, responseReady, requestFailed>>


\* ---------------------------------------------------- ProjectWorkflow
WfIds == 1..MaxTasks

\* Role and description of a plan entry.  onAssignTask treats a task of
\* role "Integrator" whose description contains "compile" specially; role
\* "Tester" has no entry in roleToInputBox.
TaskKinds == {[role |-> "Coder", description |-> "write the code"],
              [role |-> "Integrator", description |-> "compile the project"]}

ContainsCompile(description) == description = "compile the project"

Task(role, description, dependencies, status) ==
  [role |-> role, description |-> description,
   dependencies |-> dependencies, status |-> status]

EmptyTasks == [id \in {} |-> Task("", "", {}, "Pending")]

\* The keys of a QMap in iteration order.  Keys are QString::number(id);
\* for ids below 10 the string order is the numeric order.
RECURSIVE Keys(_)
Keys(S) ==
  IF S = {} THEN <<>>
  ELSE LET m == CHOOSE x \in S : \A y \in S : x <= y
       IN <<m>> \o Keys(S \ {m})

\* parsePlan(planArray): entries lacking one of id, role, description,
\* dependencies are skipped; m_tasks.insert replaces a task of the same id.
RECURSIVE parsePlan(_, _)
parsePlan(tasks, planArray) ==
  IF planArray = <<>> THEN tasks
  ELSE LET e == Head(planArray)
           task == Task(e.role, e.description, e.dependencies,
                        IF e.dependencies = {} THEN "Ready" ELSE "Pending")
           ids == DOMAIN tasks \cup {e.id}
       IN parsePlan(
            IF e.hasFields
            THEN [id \in ids |-> IF id = e.id THEN task ELSE tasks[id]]
            ELSE tasks,
            Tail(planArray))

\* The workflow state threaded through one callback.
Wf(tasks, running) ==
  [tasks |-> tasks, running |-> running, assigned |-> {}, finished |-> 0,
   passes |-> 0, ub |-> FALSE]

\* A dependency check that accepts any task of the plan, whatever its status.
allDepsMet_present(tasks, id) ==
  \A depId \in tasks[id].dependencies : depId \in DOMAIN tasks

\* The dependency check of evaluateWorkflow (lines 165-172).
allDepsMet(tasks, id) ==
  \A depId \in tasks[id].dependencies :
    depId \in DOMAIN tasks /\ tasks[depId].status = "Complete"

\* What the observer sees at the moment assignTaskToAgent is emitted.
AssignEvent(tasks, id) ==
  [id |-> id, role |-> tasks[id].role,
   dependencies |-> tasks[id].dependencies,
   depsComplete |-> \A d \in tasks[id].dependencies :
                      d \in DOMAIN tasks /\ tasks[d].status = "Complete"]

\* A local variable of a function body: value computed once, then used.
Local(value, body(_)) == CHOOSE result \in {body(x) : x \in {value}} : TRUE

RECURSIVE evaluateWorkflow(_, _)
RECURSIVE dispatchLoop(_, _, _, _)
RECURSIVE onAssignTask(_, _, _)

\* taskFinished that records the status without re-evaluating the plan.
taskFinishedOn_noEvaluate(W, taskId, loaded) ==
  IF taskId \notin DOMAIN W.tasks \/ W.tasks[taskId].status = "Complete"
  THEN W
  ELSE [W EXCEPT !.tasks[taskId].status = "Complete"]

\* taskFinished(taskId) on the threaded state.
taskFinishedOn(W, taskId, loaded) ==
  IF taskId \notin DOMAIN W.tasks \/ W.tasks[taskId].status = "Complete"
  THEN W
  ELSE Local([W EXCEPT !.tasks[taskId].status = "Complete"], LAMBDA marked :
         evaluateWorkflow(marked, loaded))

\* MainWindow::onAssignTask, connected directly to assignTaskToAgent: a
\* compile task without a loaded project is reported finished at once, from
\* inside the dispatch loop; every other task is handed over (or not) and
\* reports later.
onAssignTask(W, taskId, loaded) ==
  LET t == W.tasks[taskId]
  IN IF t.role = "Integrator" /\ ContainsCompile(t.description) /\ ~loaded
     THEN taskFinishedOn(W, taskId, loaded)
     ELSE W

\* A loop iteration that promotes nothing.
promote_none(W, id) == W

\* One iteration of the for loop on task id: the promotion of a Pending
\* task whose dependencies are met (lines 164-176).
promote(W, id) ==
  IF W.tasks[id].status = "Pending" /\ allDepsMet(W.tasks, id)
  THEN [W EXCEPT !.tasks[id].status = "Ready"]
  ELSE W

\* The dispatch of a Ready task (lines 178-183): status Running, then the
\* signal, whose slot runs before the loop goes on.
dispatch(W, id, loaded) ==
  Local([W EXCEPT !.tasks[id].status = "Running",
                  !.assigned = @ \cup {AssignEvent(W.tasks, id)}],
        LAMBDA running : onAssignTask(running, id, loaded))

\* The for loop of evaluateWorkflow over the keys still ahead of the
\* iterator.  When a handler called from the loop has cleared m_tasks, the
\* iterator dangles: ub.
dispatchLoop(W, ids, tasksWereDispatched, loaded) ==
  IF ids = <<>> THEN [W |-> W, tasksWereDispatched |-> tasksWereDispatched]
  ELSE Local(promote(W, Head(ids)), LAMBDA promoted :
         IF promoted.tasks[Head(ids)].status = "Ready"
         THEN Local(dispatch(promoted, Head(ids), loaded), LAMBDA after :
                IF after.ub \/ DOMAIN after.tasks = {}
                THEN [W |-> [after EXCEPT !.ub = TRUE],
                      tasksWereDispatched |-> TRUE]
                ELSE Local(Tail(ids), LAMBDA rest :
                       dispatchLoop(after, rest, TRUE, loaded)))
         ELSE Local(Tail(ids), LAMBDA rest :
                dispatchLoop(promoted, rest, tasksWereDispatched, loaded)))

\* A completion that leaves the plan in place.
finishWorkflow_keepsPlan(W) == [W EXCEPT !.running = FALSE, !.finished = @ + 1]

\* The completion branch of evaluateWorkflow (lines 196-200): the flag goes
\* down, workflowFinished is emitted, m_tasks is cleared.
finishWorkflow(W) ==
  [W EXCEPT !.running = FALSE, !.finished = @ + 1, !.tasks = EmptyTasks]

\* evaluateWorkflow(): the do-while around the loop, then the completion
\* check.
evaluateWorkflow(W, loaded) ==
  Local(Local(Keys(DOMAIN W.tasks), LAMBDA ids :
                dispatchLoop([W EXCEPT !.passes = @ + 1], ids, FALSE, loaded)),
        LAMBDA r :
    IF r.W.ub THEN r.W
    ELSE IF r.tasksWereDispatched THEN evaluateWorkflow(r.W, loaded)
    ELSE IF DOMAIN r.W.tasks # {} /\
            \A id \in DOMAIN r.W.tasks : r.W.tasks[id].status = "Complete"
    THEN finishWorkflow(r.W)
    ELSE r.W)

\* ------------------------------------------- ProjectWorkflow: actions
InitWf ==
  /\ m_tasks = EmptyTasks
  /\ m_isRunning = FALSE
  /\ wfCrashed = FALSE
  /\ justAssigned = {}
  /\ justFinished = 0
  /\ justPasses = 0
  /\ assigned = [id \in WfIds |-> 0]
  /\ justEscalated = <<>>
  /\ justModified = <<>>
  /\ justLoaded = <<>>
  /\ paused = FALSE
  /\ outstanding = {}
  /\ loads = 0
  /\ corrections = 0

\* The state a callback leaves behind.  After a dangling iterator the
\* process either dies or the loop happens to end.
WfCommitOf(W) ==
  /\ m_tasks' = W.tasks
  /\ m_isRunning' = W.running
  /\ justAssigned' = W.assigned
  /\ justFinished' = W.finished
  /\ IF W.ub THEN wfCrashed' \in BOOLEAN ELSE wfCrashed' = FALSE

WfCommit(W) == WfCommitOf(W) /\ justPasses' = 0

DepSets == {D \in SUBSET WfIds : Cardinality(D) <= MaxDeps}

PlanEntry(id, kind, dependencies) ==
  [id |-> id, role |-> kind.role, description |-> kind.description,
   dependencies |-> dependencies, hasFields |-> TRUE]

EntryBodies(kinds) == [kind : kinds, dependencies : DepSets]

CoderKind == CHOOSE k \in TaskKinds : k.role = "Coder"

\* The "plan" arrays a Manager response may carry: one entry per id of a
\* set of ids, in id order.
PlanArrays(kinds) ==
  UNION {{[i \in 1..Cardinality(S) |->
             PlanEntry(Keys(S)[i], f[Keys(S)[i]].kind, f[Keys(S)[i]].dependencies)]
          : f \in [S -> EntryBodies(kinds)]} : S \in SUBSET WfIds}

\* Manager responses: not JSON, JSON without a plan array, an entry that
\* lacks a field, or a plan.
ManagerResponses(kinds) ==
  {[validJson |-> FALSE, hasPlan |-> FALSE, plan |-> <<>>],
   [validJson |-> TRUE, hasPlan |-> FALSE, plan |-> <<>>],
   [validJson |-> TRUE, hasPlan |-> TRUE,
    plan |-> <<[PlanEntry(1, CoderKind, {}) EXCEPT !.hasFields = FALSE]>>]}
  \cup {[validJson |-> TRUE, hasPlan |-> TRUE, plan |-> a]
        : a \in PlanArrays(kinds)}

\* startWorkflowFromPlan(managerResponse)
startWorkflowFromPlan(managerResponse) ==
  LET parsed == IF managerResponse.validJson /\ managerResponse.hasPlan
                THEN parsePlan(EmptyTasks, managerResponse.plan)
                ELSE EmptyTasks   \* m_tasks.clear() came first
  IN /\ justLoaded' = <<[validJson |-> managerResponse.validJson,
                          hasPlan |-> managerResponse.hasPlan,
                          entries |-> Cardinality(DOMAIN parsed)]>>
     /\ IF DOMAIN parsed # {}
        THEN \E W \in {evaluateWorkflow(Wf(parsed, TRUE), projectLoaded)} :
               WfCommit(W)
        ELSE /\ m_tasks' = EmptyTasks
             /\ justAssigned' = {}
             /\ justFinished' = 0
             /\ justPasses' = 0
             /\ UNCHANGED <<m_isRunning, wfCrashed>>

LoadPlanFrom(responses, maxLoads) ==
  /\ ~wfCrashed
  /\ loads < maxLoads
  /\ \E managerResponse \in responses :
       startWorkflowFromPlan(managerResponse)
  /\ loads' = loads + 1
  /\ justEscalated' = <<>>
  /\ justModified' = <<>>
  /\ paused' = FALSE
  /\ UNCHANGED <<schedVars, projectLoaded, corrections, assigned, outstanding>>

LoadPlanOf(kinds) == LoadPlanFrom(ManagerResponses(kinds), MaxLoads)

\* taskFinished(taskId), called by a handler
taskFinished(taskId) ==
  \E W \in {taskFinishedOn(Wf(m_tasks, m_isRunning), taskId, projectLoaded)} :
    WfCommit(W)

ReportTaskSuccess ==
  /\ ~wfCrashed
  /\ \E taskId \in WfIds : taskFinished(taskId)
  /\ justEscalated' = <<>>
  /\ justModified' = <<>>
  /\ justLoaded' = <<>>
  /\ UNCHANGED <<schedVars, projectLoaded, paused, loads, corrections, assigned,
                 outstanding>>

\* A snapshot that lists no task.
getPlanStateAsJson_empty(tasks) == <<>>

\* getPlanStateAsJson(): id, role, description, status, dependencies of
\* every task; the QJsonArray has one object per value of m_tasks, in key
\* order.
getPlanStateAsJson(tasks) ==
  [i \in 1..Cardinality(DOMAIN tasks) |->
     LET id == Keys(DOMAIN tasks)[i]
     IN [id |-> id, role |-> tasks[id].role,
         description |-> tasks[id].description,
         status |-> tasks[id].status,
         dependencies |-> tasks[id].dependencies]]

\* The reasons the handlers give to taskFailed.
Reasons == {"Agent produced an empty response."}

\* taskFailed(taskId, reason), called by a handler
taskFailed(taskId, reason) ==
  IF taskId \notin DOMAIN m_tasks
  THEN /\ justEscalated' = <<>>
       /\ justModified' = <<>>
       /\ justLoaded' = <<>>
       /\ UNCHANGED <<m_tasks, m_isRunning, paused>>
  ELSE LET failed == [m_tasks EXCEPT ![taskId].status = "Failed"]
       IN /\ m_tasks' = failed
          /\ justEscalated' = <<[failedTaskId |-> taskId, reason |-> reason,
                                 currentPlanState |-> getPlanStateAsJson(failed)]>>
          /\ justModified' = <<>>
          /\ justLoaded' = <<>>
          /\ m_isRunning' = FALSE
          /\ paused' = TRUE

ReportTaskFailure ==
  /\ ~wfCrashed
  /\ \E taskId \in WfIds, reason \in Reasons : taskFailed(taskId, reason)
  /\ justAssigned' = {}
  /\ justFinished' = 0
  /\ justPasses' = 0
  /\ UNCHANGED <<schedVars, projectLoaded, wfCrashed, assigned, outstanding,
                 loads, corrections>>

\* The "modification" objects a Corrector response may carry.
\* Either keys may be absent; add_tasks holds at most one entry here.
Modifications(kinds) ==
  {[hasAdd |-> FALSE, add_tasks |-> <<>>, hasRetry |-> FALSE, retry_tasks |-> {}]}
  \cup [hasAdd : {FALSE}, add_tasks : {<<>>}, hasRetry : {TRUE},
        retry_tasks : SUBSET WfIds]
  \cup {[hasAdd |-> TRUE, add_tasks |-> <<PlanEntry(id, b.kind, b.dependencies)>>,
         hasRetry |-> r # {}, retry_tasks |-> r]
        : id \in WfIds, b \in EntryBodies(kinds),
          r \in {R \in SUBSET WfIds : Cardinality(R) <= 1}}

\* A retry loop that re-queues nothing.
retryTasks_none(tasks, modification) == tasks

\* The retry_tasks branch of applyPlanModification (lines 103-112): every
\* listed id the plan holds goes back to Pending, whatever its status was.
retryTasks(tasks, modification) ==
  [id \in DOMAIN tasks |->
     IF modification.hasRetry /\ id \in modification.retry_tasks
     THEN [tasks[id] EXCEPT !.status = "Pending"]
     ELSE tasks[id]]

\* applyPlanModification(modification)
applyPlanModification(modification) ==
  LET added == IF modification.hasAdd
               THEN parsePlan(m_tasks, modification.add_tasks)
               ELSE m_tasks
      retried == retryTasks(added, modification)
  IN \E W \in {evaluateWorkflow(Wf(retried, TRUE), projectLoaded)} :
       WfCommit(W)

ApplyCorrectionOf(kinds) ==
  /\ ~wfCrashed
  /\ corrections < MaxCorrections
  /\ \E modification \in Modifications(kinds) :
       /\ applyPlanModification(modification)
       /\ justModified' = <<[hasAdd |-> modification.hasAdd,
                              hasRetry |-> modification.hasRetry,
                              retry_tasks |-> modification.retry_tasks]>>
  /\ justLoaded' = <<>>
  /\ corrections' = corrections + 1
  /\ justEscalated' = <<>>
  /\ paused' = FALSE
  /\ UNCHANGED <<schedVars, projectLoaded, loads, assigned, outstanding>>

\* ------------------------------------------------------ specifications
CallSendRequest == CallSendRequestUpTo(MaxReq)

Init == InitSched /\ InitWf /\ projectLoaded = TRUE

Next ==
  \/ setServerController
  \/ CallSendRequest
  \/ Elapse
  \/ TimerStagger
  \/ TimerSettle
  \/ TimerNextSwap
  \/ TimerPoll
  \/ ProbeReply
  \/ BackendReady

Spec == Init /\ [][Next]_vars

\* The scheduler with backends that exit by themselves.
CallSendRequestProc == CallSendRequestUpTo(MaxProcReq)

NextProc ==
  \/ setServerController
  \/ CallSendRequestProc
  \/ Elapse
  \/ TimerStagger
  \/ TimerSettle
  \/ TimerNextSwap
  \/ TimerPoll
  \/ ProbeReply
  \/ BackendReady
  \/ ProcessFinished

SpecProc == Init /\ [][NextProc]_vars

\* The scheduler with backends that exit by themselves and callers that ask
\* for a different model with each request, so that every swap brings in a
\* model that was not resident before.
FreshRoles ==
  {role \in Roles :
     /\ \A pid \in Pids : procs[pid].model # getModelForRole(role)
     /\ \A i \in DOMAIN m_pendingRequests :
          m_pendingRequests[i].model # getModelForRole(role)}

CallSendRequestEach == CallSendRequestFrom(MaxReq, FreshRoles)

NextProcAll ==
  \/ setServerController
  \/ CallSendRequestEach
  \/ Elapse
  \/ TimerStagger
  \/ TimerSettle
  \/ TimerNextSwap
  \/ TimerPoll
  \/ ProbeReply
  \/ BackendReady
  \/ ProcessFinished

SpecProcAll == Init /\ [][NextProcAll]_vars

\* The scheduler and its pollers on an event loop that fires every expired
\* timer and delivers every reply.
NextGate ==
  \/ setServerController
  \/ CallSendRequestProc
  \/ Elapse
  \/ TimerStagger
  \/ TimerSettle
  \/ TimerNextSwap
  \/ TimerPoll
  \/ ProbeReply
  \/ BackendReady

SpecGate ==
  /\ Init /\ [][NextGate]_vars
  /\ WF_vars(TimerStagger) /\ WF_vars(TimerSettle) /\ WF_vars(TimerNextSwap)
  /\ WF_vars(TimerPoll) /\ WF_vars(ProbeReply)

\* The scheduler with callers that ask for two of the models, every timer
\* and reply eventually delivered by the event loop and every backend that is
\* left loading eventually ready.
LiveRoles == {"Coder", "Planner"}
CallSendRequestLive == CallSendRequestFrom(MaxReq, LiveRoles)

NextLive ==
  \/ setServerController
  \/ CallSendRequestLive
  \/ Elapse
  \/ TimerStagger
  \/ TimerSettle
  \/ TimerNextSwap
  \/ TimerPoll
  \/ ProbeReply
  \/ BackendReady

SpecLive ==
  /\ Init /\ [][NextLive]_vars
  /\ WF_vars(TimerStagger) /\ WF_vars(TimerSettle) /\ WF_vars(TimerNextSwap)
  /\ WF_vars(TimerPoll) /\ WF_vars(ProbeReply) /\ WF_vars(BackendReady)

\* The supervisor on its own: its public operations called in any order,
\* with the exits of its processes notified at any moment.
CtrlCommit(S, refusal) ==
  /\ justRefused' = refusal
  /\ m_activeServers' = S.servers
  /\ procs' = S.procs
  /\ lsc_activeModelName' = S.name
  /\ lsc_activeModelPort' = S.port
  /\ UNCHANGED <<wfVars, m_serverController, m_activeModelName, m_activeModelPort,
                 m_isCurrentlySwapping, m_pendingRequests, timers, inflight,
                 gates, probes, nextTaskId, accepted, dispatched, lastPost,
                 awaiting, responseReady, requestFailed>>

CallStartServer ==
  \E modelName \in Models, port \in Ports :
    /\ Spawned < MaxProcs
    /\ \E S \in {Ctrl(m_activeServers, procs, lsc_activeModelName,
                     lsc_activeModelPort)} :
         CtrlCommit(startServer(S, modelName, port), Refusal(S, modelName, port))

CallStopServer ==
  \E port \in Ports, exitsInTime \in BOOLEAN :
    CtrlCommit(stopServer(Ctrl(m_activeServers, procs, lsc_activeModelName,
                               lsc_activeModelPort), port, exitsInTime),
               NoStart)

\* MainWindow's destructor is the caller in the application.
CallStopAllServers ==
  \E exits \in [Ports -> BOOLEAN] :
    CtrlCommit(stopAllServers(Ctrl(m_activeServers, procs, lsc_activeModelName,
                                   lsc_activeModelPort), exits),
               NoStart)

NextCtrl ==
  \/ CallStartServer
  \/ CallStopServer
  \/ CallStopAllServers
  \/ BackendReady
  \/ ProcessFinished

SpecCtrl == Init /\ [][NextCtrl]_vars

\* The inference client: one request, its replies and its re-sends.
CallSendRequestNet == CallSendRequestUpTo(MaxNetReq)
ReplyFinished == ReplyFinishedUpTo(MaxAttempts)

NextNet ==
  \/ setServerController
  \/ CallSendRequestNet
  \/ Elapse
  \/ TimerStagger
  \/ TimerSettle
  \/ TimerRetry
  \/ TimerPoll
  \/ ProbeReply
  \/ BackendReady
  \/ ReplyFinished

SpecNet == Init /\ [][NextNet]_vars

\* The workflow executor under arbitrary reports and corrections.
LoadPlan == LoadPlanOf({CoderKind})
ApplyCorrection == ApplyCorrectionOf({CoderKind})

InitWF == InitSched /\ InitWf /\ projectLoaded = TRUE

NextWF ==
  \/ LoadPlan
  \/ ReportTaskSuccess
  \/ ReportTaskFailure
  \/ ApplyCorrection

SpecWF == InitWF /\ [][NextWF]_vars

\* The workflow graph with a Manager that answers twice: the second plan
\* description, which is malformed, empty or a plan of one task, arrives
\* while the first plan is loaded.
SecondResponses == {r \in ManagerResponses({CoderKind}) : Len(r.plan) <= 1}

LoadPlanAgain ==
  LoadPlanFrom(IF loads = 0 THEN ManagerResponses({CoderKind})
               ELSE SecondResponses, MaxReloads)

NextReload ==
  \/ LoadPlanAgain
  \/ ReportTaskSuccess
  \/ ReportTaskFailure

SpecReload == InitWF /\ [][NextReload]_vars

\* evaluateWorkflow() on its own: called on every task set of up to
\* MaxTasks tasks, in every combination of statuses and dependencies, with
\* handlers that report later.
Statuses == {"Pending", "Ready", "Running", "Complete", "Failed"}

TaskSets ==
  UNION {[S -> {Task(CoderKind.role, CoderKind.description, D, st)
                : D \in DepSets, st \in Statuses}] : S \in SUBSET WfIds}

InitEval ==
  /\ InitSched
  /\ projectLoaded = TRUE
  /\ m_tasks \in TaskSets
  /\ m_isRunning \in BOOLEAN
  /\ wfCrashed = FALSE
  /\ justAssigned = {}
  /\ justFinished = 0
  /\ justPasses = 0
  /\ assigned = [id \in WfIds |-> 0]
  /\ justEscalated = <<>>
  /\ justModified = <<>>
  /\ justLoaded = <<>>
  /\ paused = FALSE
  /\ outstanding = {}
  /\ loads = 0
  /\ corrections = 0

CallEvaluateWorkflow ==
  /\ ~wfCrashed
  /\ \E W \in {evaluateWorkflow(Wf(m_tasks, m_isRunning), projectLoaded)} :
       WfCommitOf(W) /\ justPasses' = W.passes
  /\ justEscalated' = <<>>
  /\ justModified' = <<>>
  /\ justLoaded' = <<>>
  /\ UNCHANGED <<schedVars, projectLoaded, paused, loads, corrections, assigned,
                 outstanding>>

NextEval == CallEvaluateWorkflow

SpecEval == InitEval /\ [][NextEval]_vars

\* The workflow executor on an acyclic plan whose dispatched tasks all
\* report success.
RECURSIVE IsAcyclic(_, _)
IsAcyclic(ids, deps) ==
  \/ ids = {}
  \/ \E id \in ids : deps[id] \cap ids = {} /\ IsAcyclic(ids \ {id}, deps)

PlanIds(a) == {a[i].id : i \in DOMAIN a}

AcyclicPlans(kinds) ==
  {a \in PlanArrays(kinds) :
     /\ a # <<>>
     /\ \A i \in DOMAIN a : a[i].dependencies \subseteq PlanIds(a)
     /\ IsAcyclic(PlanIds(a),
                  [id \in PlanIds(a) |->
                     (CHOOSE e \in {a[i] : i \in DOMAIN a} : e.id = id).dependencies])}

CountAssignments ==
  assigned' = [id \in WfIds |->
                 assigned[id] + Cardinality({e \in justAssigned' : e.id = id})]

LoadAcyclicPlan ==
  /\ ~wfCrashed
  /\ loads < MaxLoads
  /\ \E a \in AcyclicPlans(TaskKinds) :
       startWorkflowFromPlan([validJson |-> TRUE, hasPlan |-> TRUE, plan |-> a])
  /\ CountAssignments
  /\ loads' = loads + 1
  /\ justEscalated' = <<>>
  /\ justModified' = <<>>
  /\ paused' = FALSE
  /\ UNCHANGED <<schedVars, projectLoaded, corrections, outstanding>>

\* The handler of a dispatched task reports success.
CompleteRunningTask ==
  /\ ~wfCrashed
  /\ \E taskId \in DOMAIN m_tasks :
       /\ m_tasks[taskId].status = "Running"
       /\ taskFinished(taskId)
  /\ CountAssignments
  /\ justEscalated' = <<>>
  /\ justModified' = <<>>
  /\ justLoaded' = <<>>
  /\ UNCHANGED <<schedVars, projectLoaded, paused, loads, corrections,
                 outstanding>>

InitWFLive == InitSched /\ InitWf /\ projectLoaded \in BOOLEAN

NextWFLive ==
  \/ LoadAcyclicPlan
  \/ CompleteRunningTask

SpecWFLive ==
  InitWFLive /\ [][NextWFLive]_vars /\ WF_vars(CompleteRunningTask)

\* The workflow with MainWindow's handlers: a dispatched task is handed to
\* its agent, whose inference request is answered by a response or fails.
\* roleToInputBox has no entry for role "Tester".
TesterKind == [role |-> "Tester", description |-> "test the code"]

roleToInputBox == {"Coder", "Designer", "Manager", "Integrator", "Assistant",
                   "Engine", "Editing", "Researcher", "Architect", "Vrinda"}

\* onAssignTask -> handleAgent -> sendRequest for the tasks just assigned.
HandedOver(events) == {e.id : e \in {x \in events : x.role \in roleToInputBox}}

LoadPlanE2E ==
  /\ ~wfCrashed
  /\ loads < MaxLoads
  /\ \E a \in AcyclicPlans({CoderKind, TesterKind}) :
       startWorkflowFromPlan([validJson |-> TRUE, hasPlan |-> TRUE, plan |-> a])
  /\ outstanding' = outstanding \cup HandedOver(justAssigned')
  /\ loads' = loads + 1
  /\ justEscalated' = <<>>
  /\ justModified' = <<>>
  /\ paused' = FALSE
  /\ UNCHANGED <<schedVars, projectLoaded, corrections, assigned>>

\* responseReady -> onLlamaResponse: the output is saved and the task is
\* reported finished, or the response is empty or malformed and the task is
\* reported failed.
onLlamaResponse(taskId, usable) ==
  /\ IF usable
     THEN /\ taskFinished(taskId)
          /\ justEscalated' = <<>>
          /\ justModified' = <<>>
          /\ justLoaded' = <<>>
          /\ UNCHANGED paused
     ELSE /\ \E reason \in Reasons : taskFailed(taskId, reason)
          /\ justAssigned' = {}
          /\ justFinished' = 0
          /\ justPasses' = 0
          /\ UNCHANGED wfCrashed
  /\ outstanding' = (outstanding \ {taskId}) \cup HandedOver(justAssigned')

\* requestFailed -> onLlamaError: a line in the chat box and in the log.
onLlamaError(taskId) ==
  /\ outstanding' = outstanding \ {taskId}
  /\ justAssigned' = {}
  /\ justFinished' = 0
  /\ justPasses' = 0
  /\ justEscalated' = <<>>
  /\ justModified' = <<>>
  /\ justLoaded' = <<>>
  /\ UNCHANGED <<m_tasks, m_isRunning, wfCrashed, paused>>

InferenceReply ==
  /\ ~wfCrashed
  /\ \E taskId \in outstanding :
       \/ onLlamaResponse(taskId, TRUE)
       \/ onLlamaResponse(taskId, FALSE)
       \/ onLlamaError(taskId)
  /\ UNCHANGED <<schedVars, projectLoaded, loads, corrections, assigned>>

NextE2E ==
  \/ LoadPlanE2E
  \/ InferenceReply

SpecE2E == InitWF /\ [][NextE2E]_vars /\ WF_vars(InferenceReply)

\* ----------------------------------------------- scheduler properties
QueuedIds == {m_pendingRequests[i].taskId : i \in DOMAIN m_pendingRequests}

\* A readiness continuation ran in this step: a poller went to triggered.
DrainRan ==
  /\ Len(gates') = Len(gates)
  /\ \E g \in DOMAIN gates :
       ~gates[g].alreadyTriggered /\ gates'[g].alreadyTriggered

HasStagger(tm, req) ==
  \E i \in DOMAIN tm : tm[i].kind = "stagger" /\ tm[i].req = req

\* C1: whenever a request is posted, the scheduler's active model is the
\* model the request requires.
C1_PostOnlyToActiveModel ==
  lastPost.taskId # 0 =>
    /\ lastPost.activeModel = lastPost.model
    /\ lastPost.port = m_modelToPortMap(lastPost.model)

\* C2: no request is posted to a port on which a swap started a model whose
\* readiness continuation has not fired yet.
C2_NoPostToUnconfirmedPort ==
  lastPost.taskId # 0 => ~lastPost.unconfirmed

\* C3: at most one swap is in flight: at most one registered readiness
\* continuation has not fired.
C3_AtMostOneSwapInFlight ==
  Cardinality({g \in DOMAIN gates : ~gates[g].alreadyTriggered}) <= 1

\* C4: the requests accepted by sendRequest are exactly those dispatched or
\* still queued, and a drain leaves every request it found in the queue
\* either scheduled for dispatch (it matches the active model) or queued.
C4_NoQueuedRequestDropped ==
  /\ [](accepted = dispatched \cup QueuedIds)
  /\ [][DrainRan =>
         \A i \in DOMAIN m_pendingRequests :
           LET r == m_pendingRequests[i]
           IN \/ /\ r.model = m_activeModelName
                 /\ r.taskId \in dispatched'
                 /\ HasStagger(timers', r)
              \/ \E j \in DOMAIN m_pendingRequests' :
                   m_pendingRequests'[j] = r]_vars

\* A drain has dispatched one request and kept another for the next swap.
C4_Witness ==
  /\ dispatched # {}
  /\ QueuedIds \ dispatched # {}
  /\ \E i \in DOMAIN timers : timers[i].kind = "nextSwap"
  /\ \E g \in DOMAIN gates : gates[g].alreadyTriggered

\* C8: every assignment of a task is followed by the workflowFinished signal
\* or by an escalateToManager signal.
C8_DispatchedTaskCompletesOrEscalates ==
  \A id \in WfIds :
    (\E e \in justAssigned : e.id = id) ~> (justFinished = 1 \/ justEscalated # <<>>)

\* C9: when the process that served the active model has exited abnormally
\* and no younger process serves that model, the scheduler's active model
\* is cleared.
C9_ActiveModelClearedOnCrash ==
  \A pid \in Pids :
    (/\ procs[pid].st = "crashed"
     /\ procs[pid].model = m_activeModelName
     /\ procs[pid].port = m_activeModelPort
     /\ ~m_isCurrentlySwapping
     /\ ~\E q \in Pids : /\ q > pid
                          /\ procs[q].model = procs[pid].model
                          /\ procs[q].st \in {"loading", "ready", "killed"})
    => m_activeModelName = ""

\* C10: no request is transmitted more than 1 + 3 times.
C10_RetriesBounded ==
  lastPost.taskId # 0 => lastPost.attempt <= MaxNetworkRetries

\* C11: a task that received its response received no error event: the
\* attempts that failed with a transient error and were re-sent stay
\* invisible to the caller.
C11_RetriedFailuresInvisible ==
  \A t \in TaskIds : responseReady[t] > 0 => requestFailed[t] = 0

\* C12: the onReadyCallback of one poller is invoked at most once.
C12_ContinuationAtMostOnce ==
  \A g \in DOMAIN gates : gates[g].fired <= 1

\* A poller has fired while another ready reply of its own is in flight.
C12_Witness ==
  \E g \in DOMAIN gates :
    /\ gates[g].fired = 1
    /\ CopiesIn([gate |-> g, ready |-> TRUE], probes) >= 1

ProbesIn(pb, g) ==
  CopiesIn([gate |-> g, ready |-> TRUE], pb) +
  CopiesIn([gate |-> g, ready |-> FALSE], pb)

\* C13: a poller whose port is from some moment on always served by a ready
\* backend eventually invokes its onReadyCallback; the callback is invoked
\* only by the reply of a probe of that poller that found the port ready;
\* and a poller that has triggered issues no further probe.
C13_GateEventuallyFires ==
  /\ \A g \in 1..MaxProcs :
       <>[](/\ g \in DOMAIN gates
            /\ \E pid \in Pids : /\ procs[pid].port = gates[g].port
                                  /\ procs[pid].st = "ready")
         => <>(g \in DOMAIN gates /\ gates[g].fired = 1)
  /\ [][\A g \in DOMAIN gates :
          /\ (g \in DOMAIN gates' /\ gates'[g].fired > gates[g].fired)
               => CopiesIn([gate |-> g, ready |-> TRUE], probes) >= 1
          /\ gates[g].alreadyTriggered
               => ProbesIn(probes', g) <= ProbesIn(probes, g)]_vars

\* A poller has fired after one of its probes had found the port not ready,
\* and its timer is stopped.
C13_Witness ==
  \E g \in DOMAIN gates :
    /\ gates[g].fired = 1
    /\ CopiesIn([gate |-> g, ready |-> FALSE], probes) >= 1
    /\ \A i \in DOMAIN timers : ~(timers[i].kind = "poll" /\ timers[i].gate = g)

\* ------------------------------------------------ workflow properties

\* C5: every assignment event of a task that has dependencies is emitted at
\* a moment when each dependency id names a task of the plan whose status is
\* Complete.
C5_DispatchOnlyWhenDepsComplete ==
  \A e \in justAssigned : e.dependencies # {} => e.depsComplete

\* A task with dependencies has just been dispatched by a success report.
C5_Witness ==
  /\ m_isRunning
  /\ \E e \in justAssigned : e.dependencies # {} /\ e.id \notin e.dependencies

\* C7: between a task failure and the next correction no assignment event
\* is emitted.
C7_NoDispatchWhilePaused ==
  (paused /\ \E id \in DOMAIN m_tasks : m_tasks[id].status = "Failed")
    => justAssigned = {}

\* C6: on an acyclic plan whose dispatched tasks all report success, no task
\* is assigned twice, a task of the plan is Running or Complete exactly when
\* it was assigned once (so all were assigned once when all are Complete),
\* and the workflowFinished signal is eventually emitted.
C6_AcyclicPlanCompletes ==
  /\ [](/\ \A id \in WfIds : assigned[id] <= 1
        /\ \A id \in DOMAIN m_tasks :
             assigned[id] = 1 <=> m_tasks[id].status \in {"Running", "Complete"})
  /\ (loads = 1) ~> (justFinished = 1)

\* A three-task plan has completed after each of its tasks was assigned once.
C6_Witness ==
  /\ justFinished = 1
  /\ \A id \in WfIds : assigned[id] = 1
  /\ ~wfCrashed

\* ---------------------------------------------------------------------
\* The supervisor's registry
LiveOn(port) ==
  {pid \in Pids : procs[pid].port = port /\ procs[pid].st \in {"loading", "ready"}}

\* C14: whatever startServer, stopServer, stopAllServers calls and exit
\* notifications came before, no port has more than one backend process that
\* was started for it and is still running, and the process registered for
\* a port is one of those started for it.
C14_OneBackendPerPort ==
  \A port \in Ports :
    /\ Cardinality(LiveOn(port)) <= 1
    /\ m_activeServers[port] # 0 => procs[m_activeServers[port]].port = port

ctrlVars == <<m_activeServers, procs, lsc_activeModelName, lsc_activeModelPort>>

\* C15 as stated: after startServer(model, port) was called on a port that
\* had a registered process, the process registered on the port runs the
\* requested model.
C15_RegisteredRunsRequested ==
  justRefused # NoStart =>
    /\ m_activeServers[justRefused.port] # 0
    /\ procs[m_activeServers[justRefused.port]].model = justRefused.model

\* C15, amended: startServer(model, port) called while a process is
\* registered on that port is refused with a serverError; it terminates
\* nothing and starts nothing, so the registry, the processes and the
\* supervisor's active model stay as they were and no call replaces the
\* process registered on a port by another one.
C15_StartOnOccupiedPortRefused ==
  [][/\ justRefused' # NoStart =>
          /\ m_activeServers[justRefused'.port] # 0
          /\ UNCHANGED ctrlVars
     /\ \A port \in Ports :
          m_activeServers[port] # 0 =>
            m_activeServers'[port] \in {0, m_activeServers[port]}]_vars

C15_Witness ==
  /\ justRefused # NoStart
  /\ m_activeServers[justRefused.port] # 0
  /\ procs[m_activeServers[justRefused.port]].st \in {"loading", "ready"}
  /\ procs[m_activeServers[justRefused.port]].model # justRefused.model

C17_DispatchOnlyAfterReadyProbe ==
  [][dispatched' # dispatched =>
       /\ m_activeModelPort' \in Ports
       /\ awaiting'[m_activeModelPort'] = 0]_vars

\* The timers of the requests a drain dequeued for sending.
OfDrain(t, drain) == t.kind \in {"stagger", "settle"} /\ t.gate = drain

\* q2 is q1 without the requests for `model`, the others in the same order.
KeptInOrder(q2, q1, model) ==
  \E f \in [1..Len(q2) -> 1..Len(q1)] :
    /\ \A i \in 1..Len(q2), j \in 1..Len(q2) : i < j => f[i] < f[j]
    /\ \A i \in 1..Len(q2) : q2[i] = q1[f[i]]
    /\ \A k \in 1..Len(q1) :
         (\E i \in 1..Len(q2) : f[i] = k) <=> q1[k].model # model

\* C18: the requests one drain takes from the queue for the active model are
\* posted in the order they had in the queue, each at a moment of its own:
\* when one of them is posted, the others of the same drain still waiting
\* for their post come later in the queue and are due strictly later.  The
\* requests the drain leaves in the queue are the ones for other models, in
\* the order they had.
C18_DrainKeepsOrder ==
  [][/\ \A g \in DOMAIN gates :
          gates'[g].fired > gates[g].fired =>
            /\ KeptInOrder(m_pendingRequests', m_pendingRequests, m_activeModelName)
            /\ \A i \in DOMAIN timers' :
                 OfDrain(timers'[i], g) =>
                   /\ timers'[i].pos \in DOMAIN m_pendingRequests
                   /\ timers'[i].req = m_pendingRequests[timers'[i].pos]
                   /\ timers'[i].req.model = m_activeModelName
     /\ (inflight' # inflight /\ Head(timers).gate # 0) =>
          \A i \in DOMAIN timers' :
            OfDrain(timers'[i], Head(timers).gate) =>
              /\ timers'[i].pos > Head(timers).pos
              /\ timers'[i].due > 0]_vars

\* The last of three queued requests was posted by a drain that also sent
\* the first and left the second in the queue.
C18_Witness ==
  /\ lastPost.drain # 0
  /\ lastPost.pos = 3
  /\ \E r \in BagToSet(inflight) : r.req.taskId < lastPost.taskId
                                    /\ r.req.model = lastPost.model
  /\ \E i \in DOMAIN m_pendingRequests :
       m_pendingRequests[i].taskId < lastPost.taskId

\* C20: a sendRequest call of a caller that finds m_isCurrentlySwapping set
\* appends one PendingRequest for its task to the queue and changes nothing
\* else: the active model and port and the flag stay, the supervisor's
\* registry and processes stay, no poller is registered, no timer is armed
\* and nothing is posted or probed.
C20_EnqueueWhileSwappingOnly ==
  [][(nextTaskId' # nextTaskId /\ m_isCurrentlySwapping) =>
       /\ \E role \in Roles :
            m_pendingRequests' =
              Append(m_pendingRequests, PendingRequest(nextTaskId, role))
       /\ UNCHANGED <<m_activeModelName, m_activeModelPort,
                      m_isCurrentlySwapping, m_activeServers, procs,
                      lsc_activeModelName, lsc_activeModelPort, gates, timers,
                      inflight, probes, dispatched, requestFailed>>]_vars

\* The second request found the swap of the first in progress and is queued
\* behind it.
C20_Witness ==
  /\ m_isCurrentlySwapping
  /\ Len(gates) = 1
  /\ nextTaskId = 3
  /\ Len(m_pendingRequests) = 2
  /\ m_pendingRequests[1].taskId = 1
  /\ m_pendingRequests[2].taskId = 2
  /\ m_pendingRequests[2].model # m_activeModelName

\* The completion request of a task has been posted.
Posted(t) == \E r \in BagToSet(inflight) : r.req.taskId = t

\* C19: when every backend a swap starts becomes ready and the callers stop
\* calling, every request sendRequest accepted is eventually posted, and
\* the scheduler comes to rest with an empty queue and the swap flag clear:
\* the requests a drain leaves in the queue are taken up by the swap its own
\* timer starts.
C19_AcceptedEventuallyTransmitted ==
  /\ \A t \in TaskIds : (t \in accepted) ~> Posted(t)
  /\ <>[](m_pendingRequests = <<>> /\ ~m_isCurrentlySwapping)

\* Two requests were issued; the second, left in the queue by the first
\* drain, was posted by the drain of the swap the next-swap timer started.
C19_Witness ==
  /\ nextTaskId = 3
  /\ Len(gates) = 2
  /\ lastPost.taskId = 2
  /\ lastPost.drain = 2
  /\ lastPost.pos = 2
  /\ Posted(1)
  /\ m_pendingRequests = <<>>
  /\ ~m_isCurrentlySwapping

\* C21: a sendRequest call of a caller that finds the flag clear either
\* takes the immediate path, for a role whose model is the active one, or
\* begins a swap, for a role whose model is not.  On the immediate path the
\* call arms the single-shot that posts this one request to the active port
\* and changes nothing else: the binding, the flag and the queue stay, the
\* supervisor is not called and no poller is registered.
C21_ImmediateSendOnly ==
  [][(nextTaskId' # nextTaskId /\ m_serverController /\ ~m_isCurrentlySwapping) =>
       \/ \E role \in Roles :
            /\ getModelForRole(role) = m_activeModelName
            /\ PendingRequest(nextTaskId, role).port = m_activeModelPort
            /\ timers' = InsertTimer(timers,
                 Timer("settle", SettleDelay, PendingRequest(nextTaskId, role), 0, 0))
            /\ dispatched' = dispatched \cup {nextTaskId}
            /\ UNCHANGED <<m_activeModelName, m_activeModelPort,
                           m_isCurrentlySwapping, m_pendingRequests,
                           m_activeServers, procs, lsc_activeModelName,
                           lsc_activeModelPort, gates, inflight, probes,
                           requestFailed>>
       \/ \E role \in Roles :
            /\ getModelForRole(role) # m_activeModelName
            /\ m_isCurrentlySwapping'
            /\ m_activeModelName' = getModelForRole(role)]_vars

\* The second request asked for the model the first one had loaded and
\* confirmed; its post is pending and nothing was queued or started for it.
C21_Witness ==
  /\ nextTaskId = 3
  /\ Len(gates) = 1
  /\ gates[1].fired = 1
  /\ ~m_isCurrentlySwapping
  /\ m_pendingRequests = <<>>
  /\ \E i \in DOMAIN timers :
       /\ timers[i].kind = "settle"
       /\ timers[i].req.taskId = 2
       /\ timers[i].gate = 0
       /\ timers[i].req.model = m_activeModelName
       /\ timers[i].req.port = m_activeModelPort

\* C22: a sendRequest call made while no controller is attached emits one
\* requestFailed for its task and does nothing else: the request is neither
\* queued nor accepted, no timer is armed (no send, no retry), nothing is
\* posted and the scheduler's binding, flag, registry and pollers stay.
C22_NoControllerFailsOnce ==
  [][(nextTaskId' # nextTaskId /\ ~m_serverController) =>
       /\ requestFailed' = [requestFailed EXCEPT ![nextTaskId] = @ + 1]
       /\ UNCHANGED <<m_serverController, m_activeModelName, m_activeModelPort,
                      m_isCurrentlySwapping, m_pendingRequests, timers,
                      inflight, m_activeServers, procs, lsc_activeModelName,
                      lsc_activeModelPort, gates, probes, accepted,
                      dispatched, lastPost, awaiting, responseReady>>]_vars

\* The first request came before the controller was attached.
C22_Witness ==
  /\ nextTaskId = 2
  /\ requestFailed[1] = 1
  /\ 1 \notin accepted
  /\ m_pendingRequests = <<>>
  /\ timers = <<>>

\* C23: when the exit of a backend process is notified, with exit code 0 or
\* as a crash, in time for the stopServer that killed it or late, the
\* registry has no entry for the port of that process after the step.
C23_ExitRemovesRegistryEntry ==
  [][\A pid \in Pids :
       (/\ procs[pid].st \in {"loading", "ready", "killed"}
        /\ procs'[pid].st \in {"exited", "crashed"})
         => m_activeServers'[procs[pid].port] = 0]_vars

\* A registered backend has exited by itself with exit code 0 and its port
\* has no registry entry.
C23_Witness ==
  \E pid \in Pids :
    /\ procs[pid].st = "exited"
    /\ m_activeServers[procs[pid].port] = 0
    /\ \A q \in Pids : q # pid => procs[q].port # procs[pid].port

\* C24: the status of a task of the plan becomes Complete or Failed only
\* when it was Running: a success or failure report that names a Pending,
\* Ready, Failed or Complete task leaves that task's status alone.
C24_TerminalOnlyFromRunning ==
  [][\A id \in DOMAIN m_tasks \cap DOMAIN m_tasks' :
       (/\ m_tasks'[id].status \in {"Complete", "Failed"}
        /\ m_tasks'[id].status # m_tasks[id].status)
         => m_tasks[id].status = "Running"]_vars

\* The ids a task depends on, directly or through other tasks of the plan.
RECURSIVE DependsOnWithin(_, _, _)
DependsOnWithin(tasks, S, n) ==
  IF n = 0 THEN S
  ELSE DependsOnWithin(tasks,
         S \cup UNION {tasks[d].dependencies : d \in S \cap DOMAIN tasks}, n - 1)

\* A task with a dependency that is not in the plan, or on a dependency cycle.
Unresolvable(tasks, id) ==
  \/ \E d \in tasks[id].dependencies : d \notin DOMAIN tasks
  \/ id \in DependsOnWithin(tasks, tasks[id].dependencies, MaxTasks)

\* C25: a Pending task that depends on an id missing from the plan, or that
\* lies on a dependency cycle, is still Pending after any success or failure
\* report, and that report neither ends in a crash nor emits
\* workflowFinished.
C25_UnresolvableStaysPending ==
  [][(loads' = loads /\ corrections' = corrections) =>
       \A id \in DOMAIN m_tasks :
         (m_tasks[id].status = "Pending" /\ Unresolvable(m_tasks, id)) =>
           /\ id \in DOMAIN m_tasks'
           /\ m_tasks'[id].status = "Pending"
           /\ ~wfCrashed'
           /\ justFinished' = 0]_vars

\* C26: a taskFailed that names a task of the plan emits one
\* escalateToManager signal with that task id, the reason given and a plan
\* state that lists every task of the plan once: the failing task as Failed,
\* every other task with the status it had before the call, and all of them
\* with their role, description and dependencies.  A task only becomes
\* Failed in a step that emits this signal for it.
C26_EscalationCarriesPlanState ==
  [][/\ justEscalated' # <<>> =>
          /\ Len(justEscalated') = 1
          /\ LET e == justEscalated'[1]
                 snapshot == e.currentPlanState
             IN /\ e.failedTaskId \in DOMAIN m_tasks
                /\ e.reason \in Reasons
                /\ Len(snapshot) = Cardinality(DOMAIN m_tasks)
                /\ \A id \in DOMAIN m_tasks :
                     \E i \in DOMAIN snapshot :
                       /\ snapshot[i].id = id
                       /\ \A j \in DOMAIN snapshot : snapshot[j].id = id => j = i
                       /\ snapshot[i].status =
                            (IF id = e.failedTaskId THEN "Failed"
                             ELSE m_tasks[id].status)
                       /\ snapshot[i].role = m_tasks[id].role
                       /\ snapshot[i].description = m_tasks[id].description
                       /\ snapshot[i].dependencies = m_tasks[id].dependencies
     /\ \A id \in DOMAIN m_tasks \cap DOMAIN m_tasks' :
          (m_tasks'[id].status = "Failed" /\ m_tasks[id].status # "Failed") =>
            /\ justEscalated' # <<>>
            /\ justEscalated'[1].failedTaskId = id]_vars

\* A failure was reported in a plan of at least two tasks, one of them
\* Complete and shown so.
C26_Witness ==
  /\ justEscalated # <<>>
  /\ Len(justEscalated[1].currentPlanState) >= 2
  /\ \E i \in DOMAIN justEscalated[1].currentPlanState :
       /\ justEscalated[1].currentPlanState[i].status = "Complete"
       /\ justEscalated[1].currentPlanState[i].id # justEscalated[1].failedTaskId

\* ---------------------------------------------------------------- C27
\* C27: a correction that carries only a retry list puts every listed task
\* that was Failed or Complete back in the queue and resumes dispatch in the
\* same call: afterwards such a task is Running, with its assignment
\* emitted by this call, when all its dependencies are Complete, and
\* Pending otherwise; the workflow is running again, no task is added or
\* removed, and every task that is not listed keeps its status.
RetryOnly(m) == m.hasRetry /\ ~m.hasAdd

C27_RetryResetsAndRedispatches ==
  [][(justModified' # <<>> /\ RetryOnly(justModified'[1]) /\ ~wfCrashed') =>
       LET named == justModified'[1].retry_tasks
       IN /\ DOMAIN m_tasks' = DOMAIN m_tasks
          /\ m_isRunning'
          /\ \A id \in DOMAIN m_tasks :
               IF id \in named /\ m_tasks[id].status \in {"Failed", "Complete"}
               THEN IF \A d \in m_tasks'[id].dependencies :
                         d \in DOMAIN m_tasks' /\ m_tasks'[d].status = "Complete"
                    THEN /\ m_tasks'[id].status = "Running"
                         /\ \E e \in justAssigned' : e.id = id
                    ELSE m_tasks'[id].status = "Pending"
               ELSE id \notin named => m_tasks'[id].status = m_tasks[id].status]_vars

\* A correction has just re-dispatched a listed task, left another listed
\* task waiting for a dependency and left a task that is not listed alone.
C27_Witness ==
  /\ justModified # <<>>
  /\ RetryOnly(justModified[1])
  /\ \E id \in justModified[1].retry_tasks \cap DOMAIN m_tasks :
       /\ m_tasks[id].status = "Running"
       /\ \E e \in justAssigned : e.id = id
  /\ \E id \in justModified[1].retry_tasks \cap DOMAIN m_tasks :
       m_tasks[id].status = "Pending"
  /\ \E id \in DOMAIN m_tasks : id \notin justModified[1].retry_tasks

\* ---------------------------------------------------------------- C28
\* C28: workflowFinished is emitted at most once by a call, and only by a
\* call that finds a non-empty plan whose tasks are all Complete once the
\* reported task is marked; the same call clears the plan and lowers the
\* running flag.  While the plan is empty a success or failure report
\* changes nothing and emits nothing, so the event is not emitted again
\* before new tasks are loaded.
NotComplete(tasks) == {id \in DOMAIN tasks : tasks[id].status # "Complete"}

C28_CompletionOnceThenCleared ==
  [][/\ justFinished' >= 1 =>
          /\ justFinished' = 1
          /\ DOMAIN m_tasks # {}
          /\ Cardinality(NotComplete(m_tasks)) = 1
          /\ m_tasks' = EmptyTasks
          /\ ~m_isRunning'
     /\ (m_tasks = EmptyTasks /\ loads' = loads /\ corrections' = corrections) =>
          /\ m_tasks' = EmptyTasks
          /\ m_isRunning' = m_isRunning
          /\ justAssigned' = {}
          /\ justFinished' = 0
          /\ justEscalated' = <<>>]_vars

\* The loaded plan has just completed: the event is out and the plan gone.
C28_Witness ==
  /\ loads = 1
  /\ justFinished = 1
  /\ m_tasks = EmptyTasks
  /\ ~m_isRunning
  /\ ~wfCrashed

\* ---------------------------------------------------------------- C29
\* The plan description of the last load held no usable task: it was not
\* JSON, had no plan array, or its array had no entry with all four fields.
Rejected(l) == ~l.validJson \/ ~l.hasPlan \/ l.entries = 0

\* C29: a plan load whose description is malformed or empty mutates
\* nothing: the task set with every task's status and the running flag are
\* what they were before the call, and no task is dispatched.
C29_RejectedLoadMutatesNothing ==
  [][(justLoaded' # <<>> /\ Rejected(justLoaded'[1])) =>
       /\ m_tasks' = m_tasks
       /\ m_isRunning' = m_isRunning
       /\ justAssigned' = {}]_vars

\* ---------------------------------------------------------------- C30
\* C30: an attempt that fails with an error that is not transient (the
\* reply handler emits requestFailed and arms no re-send) leaves its
\* request with exactly one error event, no response event, no re-send
\* pending and no transmission in flight; and no request ever has more than
\* one event, response or error, to its name.
C30_OneTerminalEventPerRequest ==
  [][\A t \in TaskIds :
       /\ (requestFailed'[t] # requestFailed[t] /\ timers' = timers) =>
            /\ requestFailed'[t] = 1
            /\ responseReady'[t] = 0
            /\ \A i \in DOMAIN timers' :
                 ~(timers'[i].kind = "retry" /\ timers'[i].req.taskId = t)
            /\ \A r \in BagToSet(inflight') : r.req.taskId # t
       /\ responseReady'[t] + requestFailed'[t] <= 1]_vars

\* ---------------------------------------------------------------- C31
\* No probe of the poller g has reported its port ready so far.
Unreported(g) ==
  /\ ~gates[g].alreadyTriggered
  /\ CopiesIn([gate |-> g, ready |-> TRUE], probes) = 0

PollPending(tm, g) ==
  \E i \in DOMAIN tm : tm[i].kind = "poll" /\ tm[i].gate = g

IsPrefix(q1, q2) ==
  Len(q1) <= Len(q2) /\ \A i \in DOMAIN q1 : q2[i] = q1[i]

\* C31: as long as the backend polled for the running swap has not reported
\* ready, the swap stays open: across every step its poller keeps polling
\* and has not invoked its callback, the swap flag stays up, no request
\* leaves the queue or is transmitted, and no failure is signalled.
C31_UnreadySwapStaysOpen ==
  [][\A g \in DOMAIN gates :
       (/\ g = Len(gates)
        /\ Len(gates') = Len(gates)
        /\ Unreported(g)
        /\ Unreported(g)') =>
         /\ m_isCurrentlySwapping'
         /\ gates'[g].fired = 0
         /\ PollPending(timers', g)
         /\ IsPrefix(m_pendingRequests, m_pendingRequests')
         /\ dispatched' = dispatched
         /\ requestFailed' = requestFailed]_vars

\* ---------------------------------------------------------------- C32
\* The ports that hold a registered backend process.
Registered == {port \in Ports : m_activeServers[port] # 0}

\* C32: whatever sendRequest calls, readiness callbacks, drain timers and
\* process exits came before, the supervisor's registry holds at most
\* MAX_ACTIVE_LLM_SERVERS backend processes.
C32_ResidentWithinBound ==
  Cardinality(Registered) <= MAX_ACTIVE_LLM_SERVERS

\* The third model is registered after swaps away from the two others, one
\* of whose processes was killed and one of which exited by itself.
C32_Witness ==
  /\ Cardinality(Registered) = 1
  /\ Spawned = MaxProcs
  /\ \E pid \in Pids : procs[pid].st = "killed"
  /\ \E pid \in Pids : procs[pid].st \in {"exited", "crashed"}
  /\ Cardinality({procs[pid].model : pid \in Pids}) = 3

\* ---------------------------------------------------------------- C33
\* No task is Ready and no Pending task has all its dependencies in the
\* plan and Complete.
Fixpoint(tasks) ==
  \A id \in DOMAIN tasks :
    /\ tasks[id].status # "Ready"
    /\ tasks[id].status = "Pending" =>
         \E depId \in tasks[id].dependencies :
           depId \notin DOMAIN tasks \/ tasks[depId].status # "Complete"

\* C33: called on any task set, evaluateWorkflow returns after at most one
\* pass per task and one more, and leaves a fixpoint: no task Ready, no
\* Pending task whose dependencies are all present and Complete.
C33_EvaluateReachesFixpoint ==
  [][/\ justPasses' \in 1..(Cardinality(DOMAIN m_tasks) + 1)
     /\ Fixpoint(m_tasks')]_vars

\* An evaluation has dispatched in its first pass, found nothing more in
\* its second, and left a task Pending behind an unfinished dependency.
C33_Witness ==
  /\ justPasses = 2
  /\ justAssigned # {}
  /\ \E id \in DOMAIN m_tasks : m_tasks[id].status = "Pending"
  /\ \E id \in DOMAIN m_tasks : m_tasks[id].status = "Running"

\* ---------------------------------------------------------------- C34
\* C34: the swap flag goes down only in the readiness continuation of the
\* running swap: every step that leaves m_isCurrentlySwapping false after
\* it was true is the reply of a probe that triggers the poller registered
\* last.
C34_OnlyContinuationClearsFlag ==
  [][(m_isCurrentlySwapping /\ ~m_isCurrentlySwapping') =>
       /\ gates # <<>>
       /\ gates[Len(gates)].fired = 0
       /\ gates' = [gates EXCEPT ![Len(gates)].alreadyTriggered = TRUE,
                                 ![Len(gates)].fired = 1]]_vars

\* ---------------------------------------------------------------- C35
\* The first transmissions (not re-sends after a transient failure) of the
\* request t that were handed to the network.
FirstPosts(t) ==
  {r \in BagToSet(inflight) : r.req.taskId = t /\ r.attempt = 0}

\* C35: a request accepted by one sendRequest call is transmitted at most
\* once, re-sends after a transient failure apart, also when it stayed in
\* the queue after a drain and a later swap cycle serves it.
C35_TransmittedAtMostOnce ==
  \A t \in TaskIds :
    /\ Cardinality(FirstPosts(t)) <= 1
    /\ \A r \in FirstPosts(t) : CopiesIn(r, inflight) = 1

\* ---------------------------------------------------------------- C36
\* C36: a task whose dispatch is outstanding (it is Running: assigned, and
\* no report has named it since) is not assigned again by any callback.
C36_NoRedispatchWhileOutstanding ==
  [][\A id \in DOMAIN m_tasks :
       m_tasks[id].status = "Running" =>
         ~\E e \in justAssigned' : e.id = id]_vars

\* ---------------------------------------------------------------- C37
\* C37: when a process was stopped and another one was then started on its
\* port, the exit notification of the stopped process, coming after the
\* wait of stopServer gave up, leaves the new process registered and the
\* recorded active model and port as they are.
C37_LateExitKeepsNewProcess ==
  [][\A pid \in Pids :
       (/\ procs[pid].st = "killed"
        /\ procs'[pid].st # "killed"
        /\ m_activeServers[procs[pid].port] \notin {0, pid}) =>
         /\ m_activeServers' = m_activeServers
         /\ lsc_activeModelName' = lsc_activeModelName
         /\ lsc_activeModelPort' = lsc_activeModelPort]_vars

\* ---------------------------------------------------------------- C38
\* C38: whenever the readiness continuation of a poller runs, the port the
\* poller probed is the scheduler's active port and no later swap has
\* registered another poller since.
C38_ContinuationOfCurrentSwapOnly ==
  [][\A g \in DOMAIN gates :
       gates'[g].fired > gates[g].fired =>
         /\ gates[g].port = m_activeModelPort
         /\ g = Len(gates)]_vars

\* ---------------------------------------------------------------- C39
\* C39: no success report reaches the workflow from inside a dispatch pass:
\* when a callback returns, every task it assigned is still in the plan and
\* Running, a callback that assigned a task has not emitted
\* workflowFinished, and the dispatch loop never iterates over a plan that
\* was cleared under it.
C39_NoReportInsideDispatchPass ==
  /\ \A e \in justAssigned :
       e.id \in DOMAIN m_tasks /\ m_tasks[e.id].status = "Running"
  /\ justFinished > 0 => justAssigned = {}
  /\ ~wfCrashed

\* ---------------------------------------------------------------- C40
\* C40: a correction that carries added tasks and no retry list leaves
\* every task that was in the plan as it was: same status, role,
\* description and dependencies, whatever ids the added tasks carry.
C40_AddTasksOnlyAdds ==
  [][(/\ justModified' # <<>>
      /\ justModified'[1].hasAdd
      /\ ~justModified'[1].hasRetry
      /\ ~wfCrashed') =>
       \A id \in DOMAIN m_tasks :
         id \in DOMAIN m_tasks' /\ m_tasks'[id] = m_tasks[id]]_vars

====
